---- MODULE Spec2Model ----
(***************************************************************************)
(* A model of phylojs: the Tree class (src/src/tree/tree.ts), the Node     *)
(* operations it relies on, and the Newick reader.                         *)
(*                                                                         *)
(* Nodes live in an arena: `nodes` is a sequence of node records and a     *)
(* node reference is an index into it (0 is `undefined`).  The `id` field  *)
(* of a node is ordinary mutable data, as in the source.                   *)
(*                                                                         *)
(* Optional values: None is `undefined`, Some(x) is a defined value.       *)
(* Numbers (branchLength, height) are None, Num(n) for the finite number   *)
(* n / Unit, or NaN.                                                       *)
(***************************************************************************)
EXTENDS Integers, Sequences, FiniteSets, TLC

\* ------------------------------------------------------------------ bounds
MaxInitNodes == 4
MaxStaticNodes == 5
MaxHybridNodes == 2
MaxOps == 2
MaxReadNodes == 3
MaxChunks == 3
MaxListed == 3

\* Branch lengths are held as integers counted in 1/Unit, so that halving an
\* edge (reroot) stays exact for every reroot a behaviour can make.
Unit == 2 ^ MaxOps

VARIABLES nodes, tree, pre, last, ops, input
vars == <<nodes, tree, pre, last, ops, input>>

\* ------------------------------------------------------------ value helpers
None == <<>>
Some(x) == <<x>>
Num(n) == <<n>>
NaN == <<0, 0>>
IsNum(x) == Len(x) = 1
IsNaN(x) == Len(x) = 2
Val(x) == x[1]

\* JS subtraction and addition on numbers that may be NaN.
Sub(a, b) == IF IsNum(a) /\ IsNum(b) THEN Num(Val(a) - Val(b)) ELSE NaN
Add(a, b) == IF IsNum(a) /\ IsNum(b) THEN Num(Val(a) + Val(b)) ELSE NaN

Range(s) == {s[i] : i \in 1..Len(s)}

MinOfSet(S) == CHOOSE m \in S : \A x \in S : m <= x

\* Math.min(...xs) for a non-empty list of numbers: NaN if any is NaN.
MathMin(xs) ==
    IF \E i \in 1..Len(xs) : ~IsNum(xs[i]) THEN NaN
    ELSE Num(MinOfSet({Val(xs[i]) : i \in 1..Len(xs)}))

\* ------------------------------------------------------------------- Node
NewNode(id) ==
    [id |-> id, label |-> None, branchLength |-> None, height |-> None,
     hybridID |-> None, annotation |-> <<>>, parent |-> 0, children |-> <<>>]

isLeaf(ns, n) == ns[n].children = <<>>
isHybrid(ns, n) == ns[n].hybridID # None

addChild(ns, p, c) ==
    [ns EXCEPT ![c].parent = p, ![p].children = Append(@, c)]

removeChild(ns, p, c) ==
    [ns EXCEPT ![c].parent = 0,
               ![p].children = SelectSeq(@, LAMBDA x : x # c)]

RECURSIVE PreOrderFrom(_, _)
RECURSIVE PreOrderKids(_, _, _)
\* The nodes below and including n, parent first, children left to right.
PreOrderFrom(ns, n) == <<n>> \o PreOrderKids(ns, ns[n].children, 1)
PreOrderKids(ns, kids, i) ==
    IF i > Len(kids) THEN <<>>
    ELSE PreOrderFrom(ns, kids[i]) \o PreOrderKids(ns, kids, i + 1)

\* applyPreOrder with a filter: the visited nodes f keeps, in visit order.
LeavesFrom(ns, n) == SelectSeq(PreOrderFrom(ns, n), LAMBDA x : isLeaf(ns, x))
HybridsFrom(ns, n) == SelectSeq(PreOrderFrom(ns, n), LAMBDA x : isHybrid(ns, x))

\* ------------------------------------------------------------------- Tree
\* A Tree object: its root and its five lazily built views (None = not built).
EmptyTree(r) ==
    [root |-> r, nodeList |-> None, nodeIDMap |-> None, labelNodeMap |-> None,
     leafList |-> None, recombEdgeMap |-> None, isTimeTree |-> FALSE]

\* A world is the node arena together with one Tree object over it.
World(ns, t) == [nodes |-> ns, tree |-> t]

clearCaches(t) ==
    [t EXCEPT !.nodeList = None, !.nodeIDMap = None, !.labelNodeMap = None,
              !.leafList = None, !.recombEdgeMap = None]

\* get nodeList: builds the list on first use, afterwards returns the stored one.
nodeListFill(W) ==
    IF W.tree.nodeList = None
    THEN [W EXCEPT !.tree.nodeList = Some(PreOrderFrom(W.nodes, W.tree.root))]
    ELSE W
nodeList(W) == nodeListFill(W).tree.nodeList[1]

\* get leafList
leafListFill(W) ==
    IF W.tree.leafList = None
    THEN [W EXCEPT !.tree.leafList = Some(LeavesFrom(W.nodes, W.tree.root))]
    ELSE W
leafList(W) == leafListFill(W).tree.leafList[1]

RECURSIVE AssignHeights(_, _, _)
\* The callback of computeNodeAges applied along the preorder list `order`.
AssignHeights(ns, order, i) ==
    IF i > Len(order) THEN ns
    ELSE LET n == order[i]
             p == ns[n].parent
             h == IF p = 0 THEN Num(0)
                  ELSE IF ns[n].branchLength # None /\ ns[p].height # None
                       THEN Sub(ns[p].height, ns[n].branchLength)
                       ELSE NaN
         IN AssignHeights([ns EXCEPT ![n].height = h], order, i + 1)

\* Mutant of ShiftHeights: the heights are left as the preorder pass set them.
ShiftHeights_Skipped(ns, list, i, youngest) == ns

RECURSIVE ShiftHeights(_, _, _, _)
\* The loop over this.nodeList that subtracts youngestHeight.
ShiftHeights(ns, list, i, youngest) ==
    IF i > Len(list) THEN ns
    ELSE LET n == list[i]
         IN ShiftHeights(
                IF ns[n].height # None
                THEN [ns EXCEPT ![n].height = Sub(@, youngest)] ELSE ns,
                list, i + 1, youngest)

computeNodeAges(W) ==
    LET order == PreOrderFrom(W.nodes, W.tree.root)
        ns1 == AssignHeights(W.nodes, order, 1)
        heights == [i \in 1..Len(order) |-> ns1[order[i]].height]
        youngestHeight == MathMin(heights)
        tt == ~IsNaN(youngestHeight)
              /\ (Len(heights) > 1 \/ ns1[W.tree.root].branchLength # None)
        W1 == nodeListFill(World(ns1, [W.tree EXCEPT !.isTimeTree = tt]))
    IN [W1 EXCEPT !.nodes = ShiftHeights(ns1, nodeList(W1), 1, youngestHeight)]

\* new Tree(root)
NewTree(ns, r) == computeNodeAges(World(ns, EmptyTree(r)))

\* getSubtree(node): a new Tree over the same nodes; only the nodes outlive it.
getSubtree(ns, n) == NewTree(ns, n)

\* String(id), as used for the tip label of an unlabelled leaf.
IdString(i) == ToString(i)

\* The last element of list whose key is k (a later assignment overwrites).
LastWith(list, key(_), k) ==
    list[CHOOSE i \in 1..Len(list) :
            /\ key(list[i]) = k
            /\ \A j \in (i + 1)..Len(list) : key(list[j]) # k]

\* getNode(nodeID): builds nodeIDMap from this.nodeList on first use.
nodeIDMapFill(W) ==
    IF W.tree.nodeIDMap = None
    THEN LET W1 == nodeListFill(W)
             list == nodeList(W1)
             ids == {W.nodes[list[i]].id : i \in 1..Len(list)}
         IN [W1 EXCEPT !.tree.nodeIDMap =
                Some([k \in ids |-> LastWith(list, LAMBDA n : W.nodes[n].id, k)])]
    ELSE W
getNode(W, nodeID) ==
    LET m == nodeIDMapFill(W).tree.nodeIDMap[1]
    IN IF nodeID \in DOMAIN m THEN m[nodeID] ELSE 0

\* getNodeByLabel(label): builds labelNodeMap from this.leafList on first use;
\* only leaves with a defined label are entered.
labelNodeMapFill(W) ==
    IF W.tree.labelNodeMap = None
    THEN LET W1 == leafListFill(W)
             list == SelectSeq(leafList(W1), LAMBDA n : W.nodes[n].label # None)
             labels == {W.nodes[list[i]].label[1] : i \in 1..Len(list)}
         IN [W1 EXCEPT !.tree.labelNodeMap =
                Some([k \in labels |->
                        LastWith(list, LAMBDA n : W.nodes[n].label[1], k)])]
    ELSE W
getNodeByLabel(W, label) ==
    LET m == labelNodeMapFill(W).tree.labelNodeMap[1]
    IN IF label \in DOMAIN m THEN m[label] ELSE 0

\* ------------------------------------------------------- getRecombEdgeMap
\* srcHybridIDMap and destHybridIDMap over the hybrid nodes in preorder.
SrcHybridIDMap(ns, hyb) ==
    LET src == SelectSeq(hyb, LAMBDA n : ~isLeaf(ns, n))
        ids == {ns[src[i]].hybridID[1] : i \in 1..Len(src)}
    IN [k \in ids |-> LastWith(src, LAMBDA n : ns[n].hybridID[1], k)]

DestHybridIDMap(ns, hyb) ==
    LET dst == SelectSeq(hyb, LAMBDA n : isLeaf(ns, n))
        ids == {ns[dst[i]].hybridID[1] : i \in 1..Len(dst)}
    IN [k \in ids |-> SelectSeq(dst, LAMBDA n : ns[n].hybridID[1] = k)]

\* The map computed from scratch, and whether the computation throws.  The
\* loop over srcHybridIDMap visits its integer keys in ascending order; on a
\* throw the entries made so far stay in this.recombEdgeMap.
RecombCompute(ns, r) ==
    LET hyb == HybridsFrom(ns, r)
        srcM == SrcHybridIDMap(ns, hyb)
        dstM == DestHybridIDMap(ns, hyb)
        bad == {k \in DOMAIN srcM : k \notin DOMAIN dstM}
        thrown == bad # {}
        done == IF thrown THEN {k \in DOMAIN srcM : k < MinOfSet(bad)}
                ELSE DOMAIN srcM \cup DOMAIN dstM
    IN [thrown |-> thrown,
        map |-> [k \in done |->
                    IF k \in DOMAIN srcM THEN <<srcM[k]>> \o dstM[k] ELSE dstM[k]]]

\* getRecombEdgeMap(): [w |-> the world afterwards, thrown |-> whether it threw].
getRecombEdgeMap(W) ==
    IF W.tree.recombEdgeMap = None
    THEN LET c == RecombCompute(W.nodes, W.tree.root)
         IN [w |-> [W EXCEPT !.tree.recombEdgeMap = Some(c.map)],
             thrown |-> c.thrown]
    ELSE [w |-> W, thrown |-> FALSE]

\* ----------------------------------------------------------------- getMRCA
RECURSIVE MrcaAscend(_, _, _, _, _, _)
\* An ascent that answers the first node it visits a second time.
MrcaAscend_FirstRevisit(ns, nodesToCheck, i, visitCounts, nextNodes, leafCount) ==
    IF i > Len(nodesToCheck)
    THEN IF nextNodes = <<>> THEN 0
         ELSE MrcaAscend(ns, nextNodes, 1, visitCounts, <<>>, leafCount)
    ELSE LET node == nodesToCheck[i]
             count == visitCounts[node] + 1
         IN IF count = 2 THEN node
            ELSE MrcaAscend(ns, nodesToCheck, i + 1,
                            [visitCounts EXCEPT ![node] = count],
                            IF ns[node].parent # 0
                            THEN Append(nextNodes, ns[node].parent)
                            ELSE nextNodes,
                            leafCount)

\* The while loop of getMRCA: position i of nodesToCheck, nextNodes so far.
MrcaAscend(ns, nodesToCheck, i, visitCounts, nextNodes, leafCount) ==
    IF i > Len(nodesToCheck)
    THEN IF nextNodes = <<>> THEN 0
         ELSE MrcaAscend(ns, nextNodes, 1, visitCounts, <<>>, leafCount)
    ELSE LET node == nodesToCheck[i]
             count == visitCounts[node] + 1
         IN IF count = leafCount THEN node
            ELSE MrcaAscend(ns, nodesToCheck, i + 1,
                            [visitCounts EXCEPT ![node] = count],
                            IF ns[node].parent # 0
                            THEN Append(nextNodes, ns[node].parent)
                            ELSE nextNodes,
                            leafCount)

\* A getMRCA that answers the parent of the first node listed.
getMRCA_ParentOfFirst(ns, list) ==
    IF Len(list) = 0 THEN 0
    ELSE IF ns[list[1]].parent # 0 THEN ns[list[1]].parent ELSE list[1]

\* getMRCA(nodes): a node, or 0 for null.
getMRCA(ns, list) ==
    IF Len(list) = 0 THEN 0
    ELSE IF Len(list) = 1
         THEN (IF ns[list[1]].parent # 0 THEN ns[list[1]].parent ELSE list[1])
         ELSE MrcaAscend(ns, list, 1, [n \in 1..Len(ns) |-> 0], <<>>, Len(list))

\* ------------------------------------------------- tip labels, total length
TipLabelOf(ns, n) == IF ns[n].label # None THEN ns[n].label[1] ELSE IdString(ns[n].id)

\* getTipLabels() without an argument: this.leafList mapped to labels.
getTipLabels(W) ==
    LET list == leafList(W) IN [i \in 1..Len(list) |-> TipLabelOf(W.nodes, list[i])]

\* getTipLabels(node): the leaves of getSubtree(node), whose construction
\* recomputes the heights below node.
getTipLabelsOf(ns, n) ==
    LET S == getSubtree(ns, n)
        list == leafList(S)
    IN [nodes |-> S.nodes,
        tips |-> [i \in 1..Len(list) |-> TipLabelOf(S.nodes, list[i])]]

RECURSIVE SumLengths(_, _, _)
SumLengths(ns, list, i) ==
    IF i > Len(list) THEN Num(0)
    ELSE LET rest == SumLengths(ns, list, i + 1)
         IN IF ns[list[i]].branchLength # None
            THEN Add(ns[list[i]].branchLength, rest) ELSE rest

\* getTotalBranchLength(): the defined branch lengths along this.nodeList.
getTotalBranchLength(W) == SumLengths(W.nodes, nodeList(W), 1)

\* --------------------------------------------------------------- ladderise
RECURSIVE InsertByKey(_, _, _)
\* x put into the key-sorted sequence s after every element whose key is <=.
\* An insertion that puts x ahead of the elements with an equal key.
InsertByKey_Unstable(s, x, key) ==
    IF s = <<>> THEN <<x>>
    ELSE IF key[x] <= key[s[Len(s)]]
         THEN Append(InsertByKey(SubSeq(s, 1, Len(s) - 1), x, key), s[Len(s)])
         ELSE Append(s, x)

InsertByKey(s, x, key) ==
    IF s = <<>> THEN <<x>>
    ELSE IF key[x] < key[s[Len(s)]]
         THEN Append(InsertByKey(SubSeq(s, 1, Len(s) - 1), x, key), s[Len(s)])
         ELSE Append(s, x)

RECURSIVE SortByKey(_, _, _)
\* Array.prototype.sort with the comparator of ladderise: ascending, stable.
SortByKey(s, i, key) ==
    IF i = 0 THEN <<>> ELSE InsertByKey(SortByKey(s, i - 1, key), s[i], key)

TipCount(ns, n) == Len(LeavesFrom(ns, n))

RECURSIVE SubtreesBuilt(_, _, _)
\* The Trees the comparator builds: getSubtree on each child being sorted.
SubtreesBuilt(ns, kids, i) ==
    IF i > Len(kids) THEN ns
    ELSE SubtreesBuilt(getSubtree(ns, kids[i]).nodes, kids, i + 1)

\* node.children.sort(...) of ladderise at one node.  A sort of fewer than two
\* elements never calls the comparator; a longer one calls it on every element.
SortChildren(ns, n) ==
    LET kids == ns[n].children
        key == [k \in Range(kids) |-> TipCount(ns, k)]
        ns1 == IF Len(kids) >= 2 THEN SubtreesBuilt(ns, kids, 1) ELSE ns
    IN [ns1 EXCEPT ![n].children = SortByKey(kids, Len(kids), key)]

RECURSIVE LadderiseFrom(_, _)
RECURSIVE LadderiseKids(_, _, _)
LadderiseFrom(ns, n) ==
    LET ns1 == SortChildren(ns, n)
    IN LadderiseKids(ns1, ns1[n].children, 1)
LadderiseKids(ns, kids, i) ==
    IF i > Len(kids) THEN ns
    ELSE LadderiseKids(LadderiseFrom(ns, kids[i]), kids, i + 1)

\* ladderise(): touches the nodes only, no view of the Tree is cleared.
ladderise(W) == [W EXCEPT !.nodes = LadderiseFrom(W.nodes, W.tree.root)]

\* --------------------------------------------------------- reassignNodeIDs
RECURSIVE AssignIDs(_, _, _)
AssignIDs(ns, list, i) ==
    IF i > Len(list) THEN ns
    ELSE AssignIDs([ns EXCEPT ![list[i]].id = i - 1], list, i + 1)

\* A reassignNodeIDs that leaves every id as it is.
reassignNodeIDs_Skipped(W) == W

reassignNodeIDs(W) ==
    LET W1 == nodeListFill(W)
    IN [W1 EXCEPT !.nodes = AssignIDs(W1.nodes, nodeList(W1), 1)]

\* ------------------------------------------------------------------ reroot
\* prop is None (omitted) or Some(k), the proportion k/2.
PropInRange(prop) == prop # None /\ prop[1] >= 0 /\ prop[1] <= 2
TimesProp(x, prop) == IF IsNum(x) THEN Num((Val(x) * prop[1]) \div 2) ELSE NaN
Halve(x) == IF IsNum(x) THEN Num(Val(x) \div 2) ELSE NaN

\* let newHybridID = 0; while (newHybridID in usedHybridIDs) newHybridID += 1
LowestUnused(used) == CHOOSE k \in 0..Cardinality(used) :
                          k \notin used /\ \A j \in 0..(k - 1) : j \in used

\* The state the closure recurseReroot works on is S: the nodes (ns),
\* seenNodes (seen), usedHybridIDs (used), and whether an exception is
\* propagating (thrown).  cur is currentRecombEdgeMap.
RECURSIVE recurseReroot(_, _, _, _, _)
RECURSIVE rerootDests(_, _, _, _, _, _)
RECURSIVE afterAscent(_, _, _)

\* "Handle creation of hybrid nodes": node was seen before; hid is the hybrid
\* id the new placeholder leaf shares with it.
closeCycle(S, node, prevNode, BL, hid) ==
    [S EXCEPT !.ns = addChild(
                        Append([S.ns EXCEPT ![node].hybridID = Some(hid)],
                               [NewNode(0) EXCEPT !.hybridID = Some(hid),
                                                  !.branchLength = BL]),
                        prevNode, Len(S.ns) + 1),
              !.used = @ \cup {hid}]

\* node moved under prevNode and given the carried branch length BL.
reverseEdge(S, node, prevNode, BL) ==
    [S EXCEPT !.ns = [addChild(IF S.ns[node].parent # 0
                               THEN removeChild(S.ns, S.ns[node].parent, node)
                               ELSE S.ns,
                               prevNode, node)
                         EXCEPT ![node].branchLength = BL],
              !.seen = @ \cup {S.ns[node].id}]

recurseReroot(S, cur, node, prevNode, BL) ==
    IF S.thrown \/ node = 0 THEN S
    ELSE IF S.ns[node].id \in S.seen
    THEN closeCycle(S, node, prevNode, BL,
                    IF isHybrid(S.ns, node) THEN S.ns[node].hybridID[1]
                    ELSE LowestUnused(S.used))
    ELSE afterAscent(recurseReroot(reverseEdge(S, node, prevNode, BL), cur,
                                   S.ns[node].parent, node,
                                   S.ns[node].branchLength),
                     cur, node)

\* The rest of recurseReroot once the walk above node has returned: a node
\* that is a hybrid is re-rooted through each destination of its group.  A
\* hybrid id that the snapshot does not hold makes the lookup throw.
afterAscent(S, cur, node) ==
    IF S.thrown \/ ~isHybrid(S.ns, node) THEN S
    ELSE IF S.ns[node].hybridID[1] \notin DOMAIN cur
    THEN [S EXCEPT !.thrown = TRUE]
    ELSE rerootDests([S EXCEPT !.ns[node].hybridID = None], cur, node,
                     Tail(cur[S.ns[node].hybridID[1]]),
                     [i \in 1..(Len(cur[S.ns[node].hybridID[1]]) - 1) |->
                         S.ns[cur[S.ns[node].hybridID[1]][i + 1]].parent],
                     1)

\* The loop over destNodes at a node that was a hybrid.
rerootDests(S, cur, node, destNodes, destNodePs, i) ==
    IF S.thrown \/ i > Len(destNodes) THEN S
    ELSE rerootDests(
            recurseReroot(
                [S EXCEPT !.ns = IF destNodePs[i] # 0
                                 THEN removeChild(@, destNodePs[i], destNodes[i])
                                 ELSE @],
                cur, destNodePs[i], node, S.ns[destNodes[i]].branchLength),
            cur, node, destNodes, destNodePs, i + 1)

\* child moved from oldRoot to parent, oldRoot taken out.
SpliceLinks(ns, oldRoot, child, parent) ==
    addChild(removeChild(removeChild(ns, parent, oldRoot), oldRoot, child),
             parent, child)

\* "Delete singleton node left by old root": [ns, thrown].
SpliceOldRoot(ns, oldRoot) ==
    IF Len(ns[oldRoot].children) = 1 /\ ~isHybrid(ns, oldRoot)
    THEN IF ns[oldRoot].parent = 0 THEN [ns |-> ns, thrown |-> TRUE]
         ELSE IF ns[ns[oldRoot].children[1]].branchLength = None
                 \/ ns[oldRoot].branchLength = None
         THEN [ns |-> SpliceLinks(ns, oldRoot, ns[oldRoot].children[1],
                                  ns[oldRoot].parent),
               thrown |-> TRUE]
         ELSE [ns |-> [SpliceLinks(ns, oldRoot, ns[oldRoot].children[1],
                                   ns[oldRoot].parent)
                          EXCEPT ![ns[oldRoot].children[1]].branchLength =
                              Add(@, ns[oldRoot].branchLength)],
               thrown |-> FALSE]
    ELSE [ns |-> ns, thrown |-> FALSE]

RECURSIVE CorrectDests(_, _, _)
\* The inner loop of the height correction for one entry of the map.
CorrectDests(R, entry, i) ==
    IF R.thrown \/ i > Len(entry) THEN R
    ELSE IF R.ns[entry[i]].branchLength = None
            \/ R.ns[entry[i]].height = None \/ R.ns[entry[1]].height = None
    THEN [R EXCEPT !.thrown = TRUE]
    ELSE CorrectDests(
            [R EXCEPT !.ns[entry[i]].branchLength =
                Add(@, Sub(R.ns[entry[i]].height, R.ns[entry[1]].height))],
            entry, i + 1)

RECURSIVE CorrectHeights(_, _, _)
\* "Ensure destNode leaf heights match those of corresponding srcNodes",
\* over the keys of the map in ascending order.
CorrectHeights(R, map, todo) ==
    IF R.thrown \/ todo = {} THEN R
    ELSE CorrectHeights(CorrectDests(R, map[MinOfSet(todo)], 2), map,
                        todo \ {MinOfSet(todo)})

\* reroot, last stage: G is the outcome of getRecombEdgeMap() on the rebuilt
\* tree; the destination lengths are corrected.
rerootCorrect(G) ==
    IF G.thrown THEN G
    ELSE [w |-> [G.w EXCEPT !.nodes =
                    CorrectHeights([ns |-> @, thrown |-> FALSE],
                                   G.w.tree.recombEdgeMap[1],
                                   DOMAIN G.w.tree.recombEdgeMap[1]).ns],
          thrown |-> CorrectHeights([ns |-> G.w.nodes, thrown |-> FALSE],
                                    G.w.tree.recombEdgeMap[1],
                                    DOMAIN G.w.tree.recombEdgeMap[1]).thrown]

\* reroot after the splice P: clearCaches, computeNodeAges, reassignNodeIDs.
rerootRefresh(P, t0) ==
    IF P.thrown THEN [w |-> World(P.ns, t0), thrown |-> TRUE]
    ELSE rerootCorrect(getRecombEdgeMap(reassignNodeIDs(
             computeNodeAges(World(P.ns, clearCaches(t0))))))

\* reroot after the recursive walk S.
rerootSplice(S, t0, oldRoot) ==
    IF S.thrown THEN [w |-> World(S.ns, t0), thrown |-> TRUE]
    ELSE rerootRefresh(SpliceOldRoot(S.ns, oldRoot), t0)

\* "handling proprtion to cut branch for root": what edgeBaseNode keeps of its
\* branch length bl, and the remainder BL carried to the old parent.
EdgeSplit(bl, prop) ==
    IF bl = None THEN [kept |-> None, BL |-> None]
    ELSE IF PropInRange(prop)
         THEN [kept |-> TimesProp(bl, prop), BL |-> Sub(bl, TimesProp(bl, prop))]
         ELSE [kept |-> Halve(bl), BL |-> Halve(bl)]

\* reroot once edgeBaseNode hangs under the new root (nodes ns1).
rerootWalk(ns1, t0, cur, oldRoot, edgeBaseNode, edgeBaseNodeP, split) ==
    rerootSplice(
        recurseReroot([ns |-> [ns1 EXCEPT ![edgeBaseNode].branchLength = split.kept],
                       seen |-> {}, used |-> DOMAIN cur, thrown |-> FALSE],
                      cur, edgeBaseNodeP, t0.root, split.BL),
        t0, oldRoot)

\* reroot after the snapshot: this.root = new Node(0) is already made (ns0,
\* t0) when a parentless edgeBaseNode makes it throw.
rerootCut(ns0, t0, cur, oldRoot, edgeBaseNode, prop) ==
    IF ns0[edgeBaseNode].parent = 0 THEN [w |-> World(ns0, t0), thrown |-> TRUE]
    ELSE rerootWalk(addChild(removeChild(ns0, ns0[edgeBaseNode].parent, edgeBaseNode),
                             t0.root, edgeBaseNode),
                    t0, cur, oldRoot, edgeBaseNode, ns0[edgeBaseNode].parent,
                    EdgeSplit(ns0[edgeBaseNode].branchLength, prop))

\* reroot from the snapshot G = this.getRecombEdgeMap() on.
rerootSnap(G, oldRoot, edgeBaseNode, prop) ==
    IF G.thrown THEN G
    ELSE rerootCut(Append(G.w.nodes, NewNode(0)),
                   [G.w.tree EXCEPT !.root = Len(G.w.nodes) + 1],
                   G.w.tree.recombEdgeMap[1], oldRoot, edgeBaseNode, prop)

\* reroot(edgeBaseNode, prop): [w |-> the world afterwards, thrown |-> ...].
reroot(W, edgeBaseNode, prop) ==
    rerootSnap(getRecombEdgeMap([W EXCEPT !.tree.recombEdgeMap = None]),
               W.tree.root, edgeBaseNode, prop)

\* ------------------------------------------------------------ parsed trees
\* The node graphs doParse builds: node i is the i-th node entered (preorder,
\* id i - 1), so the parent of node i is node i - 1 or one of its ancestors.
RECURSIVE AncSelf(_, _)
AncSelf(p, i) == {i} \cup (IF p[i] = 0 THEN {} ELSE AncSelf(p, p[i]))

RECURSIVE Shapes(_)
\* The parent vectors of the graphs with n nodes.
Shapes(n) ==
    IF n = 1 THEN {<<0>>}
    ELSE UNION {{Append(p, a) : a \in AncSelf(p, n - 1)} : p \in Shapes(n - 1)}

Name(i) == "L" \o ToString(i)

\* Labels, branch lengths and hybrid marks written on the nodes.
Plain(n) == [bl |-> [i \in 1..n |-> IF i = 1 THEN None ELSE Num(Unit * (1 + (i % 2)))],
             lab |-> [i \in 1..n |-> Some(Name(i))],
             hy |-> [i \in 1..n |-> None]]

HybridMarks(n) ==
    {h \in [1..n -> {None, Some(0), Some(1)}] :
        /\ Cardinality({i \in 1..n : h[i] # None}) \in 1..MaxHybridNodes
        /\ (\E i \in 1..n : h[i] = Some(1)) => (\E i \in 1..n : h[i] = Some(0))}

Decorations(n) ==
    {Plain(n)}
    \cup {[Plain(n) EXCEPT !.bl[1] = b] : b \in {Num(0), Num(Unit)}}
    \cup {[Plain(n) EXCEPT !.bl[k] = None] : k \in 2..n}
    \cup {[Plain(n) EXCEPT !.lab[n] = None]}
    \cup {[Plain(n) EXCEPT !.lab = [i \in 1..n |-> None]]}
    \cup {[Plain(n) EXCEPT !.hy = h] : h \in HybridMarks(n)}

Parsed(n, p, d) ==
    [i \in 1..n |->
        [id |-> i - 1, label |-> d.lab[i], branchLength |-> d.bl[i],
         height |-> None, hybridID |-> d.hy[i], annotation |-> <<>>,
         parent |-> p[i],
         children |-> SelectSeq([k \in 1..n |-> k], LAMBDA k : p[k] = i)]]

ParsedGraphs(max) ==
    UNION {{Parsed(n, p, d) : p \in Shapes(n), d \in Decorations(n)} :
             n \in 1..max}

\* readNewick after doParse: new Tree(rootNode), then a zero root branch
\* length is replaced by undefined.
readNewickTree(ns) ==
    LET W == NewTree(ns, 1)
    IN IF W.nodes[W.tree.root].branchLength = Num(0)
       THEN [W EXCEPT !.nodes[W.tree.root].branchLength = None]
       ELSE W

\* The latest call on the Tree: its name, argument, result, and whether it threw.
NoCall == [op |-> "none", thrown |-> FALSE, arg |-> <<>>, ret |-> <<>>, prev |-> "none"]
Call(op, arg, ret, thrown) ==
    [op |-> op, thrown |-> thrown, arg |-> arg, ret |-> ret, prev |-> "none"]

\* No text is at hand when the Tree comes from elsewhere.
NoWritten ==
    [parent |-> <<>>, label |-> <<>>, quote |-> <<>>, length |-> <<>>,
     point |-> <<>>, extra |-> <<>>]
NoInput == [kind |-> "none", text |-> <<>>, written |-> NoWritten, chunks |-> <<>>]

InitFrom(graphs) ==
    \E ns \in graphs :
        LET W == readNewickTree(ns)
        IN /\ nodes = W.nodes
           /\ tree = W.tree
           /\ pre = W
           /\ last = NoCall
           /\ ops = 0
           /\ input = NoInput

Init == InitFrom(ParsedGraphs(MaxInitNodes))

Now == World(nodes, tree)
TreeNodes == Range(PreOrderFrom(nodes, tree.root))

\* One call on the Tree: the world it leaves, and what it returned.
Step(W, call) ==
    /\ ops < MaxOps
    /\ ops' = ops + 1
    /\ pre' = Now
    /\ nodes' = W.nodes
    /\ tree' = W.tree
    /\ last' = [call EXCEPT !.prev = last.op]
    /\ input' = input

ReadNodeList ==
    Step(nodeListFill(Now), Call("nodeList", <<>>, nodeList(Now), FALSE))

ReadLeafList ==
    Step(leafListFill(Now), Call("leafList", <<>>, leafList(Now), FALSE))

GetNode ==
    \E i \in {0, Len(nodes) - 1} :
        Step(nodeIDMapFill(Now), Call("getNode", <<i>>, getNode(Now, i), FALSE))

\* The labels asked for: those written on the first and the last node, and
\* the stringified id of the last node.
LabelKeys == {Name(1), Name(Len(nodes)), IdString(nodes[Len(nodes)].id)}

GetNodeByLabel ==
    \E label \in LabelKeys :
        Step(labelNodeMapFill(Now),
             Call("getNodeByLabel", <<label>>, getNodeByLabel(Now, label), FALSE))

GetRecombEdgeMap ==
    LET G == getRecombEdgeMap(Now)
    IN Step(G.w, Call("getRecombEdgeMap", <<>>,
                      IF G.thrown THEN <<>> ELSE G.w.tree.recombEdgeMap[1], G.thrown))

GetMRCALeaves ==
    Step(leafListFill(Now),
         Call("getMRCA", leafList(Now), getMRCA(nodes, leafList(Now)), FALSE))

GetTipLabels ==
    Step(leafListFill(Now), Call("getTipLabels", <<>>, getTipLabels(Now), FALSE))

GetTipLabelsOf ==
    \E n \in TreeNodes :
        LET r == getTipLabelsOf(nodes, n)
        IN Step(World(r.nodes, tree), Call("getTipLabelsOf", <<n>>, r.tips, FALSE))

\* getSubtree(node): a new Tree over the same nodes, which it returns.
GetSubtree ==
    \E n \in TreeNodes :
        Step(World(getSubtree(nodes, n).nodes, tree),
             Call("getSubtree", <<n>>, getSubtree(nodes, n).tree, FALSE))

GetTotalBranchLength ==
    Step(nodeListFill(Now),
         Call("getTotalBranchLength", <<>>, getTotalBranchLength(Now), FALSE))

ComputeNodeAges == Step(computeNodeAges(Now), Call("computeNodeAges", <<>>, <<>>, FALSE))

Ladderise == Step(ladderise(Now), Call("ladderise", <<>>, <<>>, FALSE))

ReassignNodeIDs == Step(reassignNodeIDs(Now), Call("reassignNodeIDs", <<>>, <<>>, FALSE))

\* reroot(edgeBaseNode, prop) on a Tree that exists.
Reroot ==
    /\ tree.root # 0
    /\ \E n \in TreeNodes, prop \in {None, Some(0), Some(1), Some(3)} :
          LET r == reroot(Now, n, prop)
          IN Step(r.w, Call("reroot", <<n, prop>>, <<>>, r.thrown))

Next ==
    \/ ReadNodeList
    \/ ReadLeafList
    \/ GetNode
    \/ GetNodeByLabel
    \/ GetRecombEdgeMap
    \/ GetMRCALeaves
    \/ GetTipLabels
    \/ GetTipLabelsOf
    \/ GetSubtree
    \/ GetTotalBranchLength
    \/ ComputeNodeAges
    \/ Ladderise
    \/ ReassignNodeIDs
    \/ Reroot

Spec == Init /\ [][Next]_vars

\* Calls that leave the node set and every parent link alone.
NextStatic ==
    \/ ReadLeafList
    \/ GetMRCALeaves
    \/ ComputeNodeAges
    \/ Ladderise

InitStatic == InitFrom(ParsedGraphs(MaxStaticNodes))

SpecStatic == InitStatic /\ [][NextStatic]_vars

\* getMRCA over any list of at most MaxListed nodes of the tree, on the
\* trees of every shape with plain labels and lengths.  The call changes
\* nothing, so it is made once, on the Tree as read.
GetMRCA ==
    /\ ops = 0
    /\ \E list \in UNION {[1..k -> TreeNodes] : k \in 0..MaxListed} :
          Step(Now, Call("getMRCA", list, getMRCA(nodes, list), FALSE))

SpecMrca ==
    /\ InitFrom({Parsed(Len(p), p, Plain(Len(p))) :
                   p \in UNION {Shapes(n) : n \in 1..MaxInitNodes}})
    /\ [][GetMRCA]_vars

\* ------------------------------------------------------------ Newick lexer
\* A text is a sequence of one-character strings.
Drop(s, n) == SubSeq(s, n + 1, Len(s))
MaxOfSet(S) == CHOOSE m \in S : \A x \in S : m >= x

\* The characters /\s/ matches among those the inputs use.
WhiteSpace == {" ", "\n"}

RECURSIVE Span(_, _, _)
\* The length of the longest prefix of s whose characters are all in set
\* (inside) or all outside it (~inside): [...]* and [^...]*.
Span(s, set, inside) ==
    IF s = <<>> \/ (s[1] \in set) # inside THEN 0
    ELSE 1 + Span(Tail(s), set, inside)

\* String.prototype.trim
Trim(s) ==
    IF Span(s, WhiteSpace, TRUE) = Len(s) THEN <<>>
    ELSE SubSeq(s, Span(s, WhiteSpace, TRUE) + 1,
                Len(s) - Span([i \in 1..Len(s) |-> s[Len(s) + 1 - i]],
                              WhiteSpace, TRUE))

RECURSIVE QuotedItems(_, _)
\* t is a run of (?:[^q]|qq).
QuotedItems(t, q) ==
    IF t = <<>> THEN TRUE
    ELSE IF t[1] # q THEN QuotedItems(Tail(t), q)
    ELSE Len(t) >= 2 /\ t[2] = q /\ QuotedItems(Drop(t, 2), q)

\* /^q(?:[^q]|qq)+q/ at the start of s: the length matched, 0 for no match.
MatchQuoted(s, q) ==
    IF s = <<>> \/ s[1] # q THEN 0
    ELSE LET ends == {j \in 3..Len(s) :
                         s[j] = q /\ QuotedItems(SubSeq(s, 2, j - 1), q)}
         IN IF ends = {} THEN 0 ELSE MaxOfSet(ends)

MatchLiteral(s, lit) ==
    IF Len(s) >= Len(lit) /\ SubSeq(s, 1, Len(lit)) = lit THEN Len(lit) ELSE 0

\* /^[^,():;[\]#]+(?:\([^)]*\))?/
MatchBare(s) ==
    LET n == Span(s, {",", "(", ")", ":", ";", "[", "]", "#"}, FALSE)
        m == Span(Drop(s, n + 1), {")"}, FALSE)
    IN IF n = 0 THEN 0
       ELSE IF n < Len(s) /\ s[n + 1] = "(" /\ n + 1 + m < Len(s)
       THEN n + m + 2
       ELSE n

\* /^[^,[\]{}=]+/
MatchAttr(s) == Span(s, {",", "[", "]", "{", "}", "="}, FALSE)

\* The tokens table: kind of each rule, in order.
tokens ==
    <<"OPENP", "CLOSEP", "COLON", "COMMA", "SEMI", "OPENA", "CLOSEA", "OPENV",
      "CLOSEV", "EQ", "HASH", "STRING", "STRING", "STRING", "STRING">>

\* The lexer mode a rule is limited to (tokens[k][3]); -1 when it has none.
RuleMode(k) == IF k = 14 THEN 0 ELSE IF k = 15 THEN 1 ELSE -1

\* tokens[k][1].exec(s) with match.index === 0: the length matched, else 0.
MatchRule(k, s) ==
    IF k <= 11
    THEN MatchLiteral(s, <<<<"(">>, <<")">>, <<":">>, <<",">>, <<";">>, <<"[", "&">>,
                           <<"]">>, <<"{">>, <<"}">>, <<"=">>, <<"#">>>>[k])
    ELSE IF k = 12 THEN MatchQuoted(s, "\"")
    ELSE IF k = 13 THEN MatchQuoted(s, "'")
    ELSE IF k = 14 THEN MatchBare(s)
    ELSE MatchAttr(s)

\* value.replace(/^q(.*)q$/, '$1'): '.' matches no line break.
StripQuotes(v, q) ==
    IF Len(v) >= 2 /\ v[1] = q /\ v[Len(v)] = q /\ "\n" \notin Range(v)
    THEN SubSeq(v, 2, Len(v) - 1)
    ELSE v

\* value.replace(qq, q) with a string pattern: the first occurrence only.
ReplaceFirstPair(v, q) ==
    LET at == {i \in 1..(Len(v) - 1) : v[i] = q /\ v[i + 1] = q}
    IN IF at = {} THEN v
       ELSE SubSeq(v, 1, MinOfSet(at)) \o Drop(v, MinOfSet(at) + 1)

\* What doLex does to the text of a STRING token.
Unquote(v) ==
    ReplaceFirstPair(ReplaceFirstPair(StripQuotes(StripQuotes(v, "\""), "'"), "'"),
                     "\"")

\* The rules that apply in lexMode and match at the start of s.
Matching(s, lexMode) ==
    {k \in 1..Len(tokens) : RuleMode(k) \in {-1, lexMode} /\ MatchRule(k, s) > 0}

RECURSIVE doLex(_, _, _, _)
\* One token pushed by rule k, which matched len characters at idx.
lexToken(newick, idx, lexMode, tokenList, k, len) ==
    doLex(newick, idx + len,
          IF tokens[k] = "OPENA" THEN 1
          ELSE IF tokens[k] = "CLOSEA" THEN 0 ELSE lexMode,
          Append(tokenList,
                 [kind |-> tokens[k],
                  value |-> IF tokens[k] = "STRING"
                            THEN Unquote(SubSeq(newick, idx, idx + len - 1))
                            ELSE SubSeq(newick, idx, idx + len - 1),
                  pos |-> idx - 1]))

\* doLex from character idx (counted from 1) on: the token list, or thrown
\* for the ParseException of an unmatched character.
doLex(newick, idx, lexMode, tokenList) ==
    IF idx > Len(newick) THEN [tokenList |-> tokenList, thrown |-> FALSE]
    ELSE IF newick[idx] \in WhiteSpace
    THEN doLex(newick, idx + 1, lexMode, tokenList)
    ELSE LET hits == Matching(Drop(newick, idx - 1), lexMode)
         IN IF hits = {} THEN [tokenList |-> tokenList, thrown |-> TRUE]
            ELSE lexToken(newick, idx, lexMode, tokenList, MinOfSet(hits),
                          MatchRule(MinOfSet(hits), Drop(newick, idx - 1)))

\* ---------------------------------------------------------------- Number
RECURSIVE DigitsValue(_)
\* The number a string of decimal digits writes.
DigitsValue(s) ==
    IF s = <<>> THEN 0
    ELSE 10 * DigitsValue(SubSeq(s, 1, Len(s) - 1))
         + (CHOOSE d \in 0..9 : ToString(d) = s[Len(s)])

\* Number(text) for decimal literals (digits with an optional fraction);
\* blank text is 0 and any other text is NaN.  The result is counted in
\* 1/Unit, exact for the fractions the inputs write (.0 and .5).
Number(s) ==
    LET t == Trim(s)
        n == Span(t, {"."}, FALSE)
        digits == SubSeq(t, 1, n) \o Drop(t, n + 1)
    IN IF t = <<>> THEN Num(0)
       ELSE IF digits # <<>> /\ Range(digits) \subseteq {ToString(d) : d \in 0..9}
       THEN Num((DigitsValue(digits) * Unit) \div (10 ^ (Len(digits) - n)))
       ELSE NaN

\* ------------------------------------------------------------ Newick parser
\* The parser state P: the nodes made so far (ns), the cursor idx into the
\* token list (counted from 1), thisNodeID, the result of the latest
\* acceptToken (ok), the latest ruleQ value (val), and whether a
\* ParseException is propagating (thrown).
acceptToken(P, toks, token, mandatory) ==
    IF P.idx <= Len(toks) /\ toks[P.idx].kind = token
    THEN [P EXCEPT !.idx = @ + 1, !.ok = TRUE]
    ELSE [P EXCEPT !.ok = FALSE, !.thrown = mandatory]

\* acceptToken(token, false) and acceptToken(token, true), skipped while an
\* exception propagates.
opt(P, toks, token) ==
    IF P.thrown THEN [P EXCEPT !.ok = FALSE] ELSE acceptToken(P, toks, token, FALSE)
expect(P, toks, token) ==
    IF P.thrown THEN P ELSE acceptToken(P, toks, token, TRUE)

\* The text of the token just accepted.
Accepted(P, toks) == toks[P.idx - 1].value

\* Annotation values are [t |-> "str", v |-> text], [t |-> "arr", v |-> values]
\* or null.
Null == [t |-> "null", v |-> <<>>]

isStringOrStringArrayOrNull(value) ==
    \/ value.t = "str"
    \/ value.t = "arr" /\ \A i \in 1..Len(value.v) : value.v[i].t = "str"
    \/ value.t = "null"

RECURSIVE ruleN(_, _, _)
RECURSIVE ruleM(_, _, _)
RECURSIVE ruleQ(_, _)
RECURSIVE ruleW(_, _)
RECURSIVE ruleE(_, _, _)
RECURSIVE ruleR(_, _)

ruleM(P, toks, node) ==
    LET A == opt(P, toks, "COMMA")
    IN IF A.ok THEN ruleM(ruleN(A, toks, node), toks, node) ELSE A

ruleC(P, toks, node) ==
    LET A == opt(P, toks, "OPENP")
    IN IF A.ok
       THEN expect(ruleM(ruleN(A, toks, node), toks, node), toks, "CLOSEP")
       ELSE A

ruleL(P, toks, node) ==
    LET A == opt(P, toks, "STRING")
    IN IF A.ok THEN [A EXCEPT !.ns[node].label = Some(Accepted(A, toks))] ELSE A

\* node.hybridID = Number(text): a whole number in every text read, held
\* uncounted (Some(h)), or NaN.
ruleHString(P, toks, node) ==
    IF P.thrown THEN P
    ELSE [P EXCEPT !.ns[node].hybridID =
             IF IsNum(Number(Accepted(P, toks)))
             THEN Some(Val(Number(Accepted(P, toks))) \div Unit)
             ELSE NaN]
ruleH(P, toks, node) ==
    LET A == opt(P, toks, "HASH")
    IN IF A.ok THEN ruleHString(expect(A, toks, "STRING"), toks, node) ELSE A

\* [ruleQ()].concat(ruleW()), the first ruleQ made: P holds its value.
ruleQCons(P, toks) ==
    [ruleW(P, toks) EXCEPT !.val = [t |-> "arr", v |-> <<P.val>> \o @.v]]

ruleW(P, toks) ==
    LET A == opt(P, toks, "COMMA")
    IN IF A.ok THEN ruleQCons(ruleQ(A, toks), toks)
       ELSE [A EXCEPT !.val = [t |-> "arr", v |-> <<>>]]

ruleQ(P, toks) ==
    LET S == opt(P, toks, "STRING")
        A == opt(P, toks, "OPENV")
    IN IF S.ok THEN [S EXCEPT !.val = [t |-> "str", v |-> Accepted(S, toks)]]
       ELSE IF A.ok THEN expect(ruleQCons(ruleQ(A, toks), toks), toks, "CLOSEV")
       ELSE [A EXCEPT !.val = Null]

ruleDSet(P, node, key) ==
    IF P.thrown \/ ~isStringOrStringArrayOrNull(P.val) THEN P
    ELSE [P EXCEPT !.ns[node].annotation = (key :> P.val) @@ @]
ruleDKey(P, toks, node) ==
    IF P.thrown THEN P
    ELSE ruleDSet(ruleQ(expect(P, toks, "EQ"), toks), node, Accepted(P, toks))
ruleD(P, toks, node) == ruleDKey(expect(P, toks, "STRING"), toks, node)

ruleE(P, toks, node) ==
    LET A == opt(P, toks, "COMMA")
    IN IF A.ok THEN ruleE(ruleD(A, toks, node), toks, node) ELSE A

ruleA(P, toks, node) ==
    LET A == opt(P, toks, "OPENA")
    IN IF A.ok
       THEN expect(ruleE(ruleD(A, toks, node), toks, node), toks, "CLOSEA")
       ELSE A

ruleR(P, toks) ==
    LET A == opt(P, toks, "COLON")
    IN IF A.ok THEN ruleR(opt(A, toks, "STRING"), toks) ELSE A

ruleBLength(P, toks, node) ==
    IF P.thrown THEN P
    ELSE IF IsNaN(Number(Accepted(P, toks))) THEN [P EXCEPT !.thrown = TRUE]
    ELSE ruleA(ruleR([P EXCEPT !.ns[node].branchLength = Number(Accepted(P, toks))],
                     toks),
               toks, node)
ruleB(P, toks, node) ==
    LET A == opt(P, toks, "COLON")
    IN IF A.ok THEN ruleBLength(expect(A, toks, "STRING"), toks, node) ELSE A

\* new Node(thisNodeID++), added to parent (0 for undefined).
ruleNNew(P, parent) ==
    [P EXCEPT !.ns = IF parent = 0 THEN Append(@, NewNode(P.thisNodeID))
                     ELSE addChild(Append(@, NewNode(P.thisNodeID)), parent,
                                   Len(@) + 1),
              !.thisNodeID = @ + 1]

\* ruleN makes the node Len(P.ns) + 1.
ruleN(P, toks, parent) ==
    ruleB(ruleA(ruleH(ruleL(ruleC(ruleNNew(P, parent), toks, Len(P.ns) + 1),
                            toks, Len(P.ns) + 1),
                      toks, Len(P.ns) + 1),
                toks, Len(P.ns) + 1),
          toks, Len(P.ns) + 1)

ruleTEnd(P, toks) ==
    IF P.thrown \/ opt(P, toks, "SEMI").ok THEN opt(P, toks, "SEMI")
    ELSE IF opt(P, toks, "COMMA").ok
    THEN [opt(P, toks, "COMMA") EXCEPT !.thrown = TRUE]
    ELSE P
ruleT(P, toks) == ruleTEnd(ruleN(P, toks, 0), toks)

\* doParse(tokenList): the root is the first node made.
doParse(tokenList) ==
    ruleT([ns |-> <<>>, idx |-> 1, thisNodeID |-> 0, ok |-> FALSE,
           val |-> Null, thrown |-> FALSE],
          tokenList)

\* ------------------------------------------------------------ the readers
NoTree == World(<<>>, EmptyTree(0))

\* What a call of readNewick comes to: a Tree, or the exception it raises.
Raised(kind) == [kind |-> kind, w |-> NoTree]

readNewick(newick) ==
    LET tokenList == doLex(newick, 1, 0, <<>>)
        rootNode == doParse(tokenList.tokenList)
    IN IF tokenList.thrown \/ rootNode.thrown THEN Raised("ParseException")
       ELSE [kind |-> "tree", w |-> readNewickTree(rootNode.ns)]

\* The length of /\s*\n/ at the start of t, 0 for no match.
NewlineRun(t) ==
    LET at == {i \in 1..Span(t, WhiteSpace, TRUE) : t[i] = "\n"}
    IN IF at = {} THEN 0 ELSE MaxOfSet(at)

RECURSIVE SplitTrees(_, _)
\* newick.split(/;\s*\n/), line being the piece in progress.
SplitTrees(s, line) ==
    IF s = <<>> THEN <<line>>
    ELSE IF s[1] = ";" /\ NewlineRun(Tail(s)) > 0
    THEN <<line>> \o SplitTrees(Drop(s, 1 + NewlineRun(Tail(s))), <<>>)
    ELSE SplitTrees(Tail(s), Append(line, s[1]))

RECURSIVE readTreesLoop(_, _, _)
\* A catch that takes every exception for the skip signal.
readTreesCatch_AllSkipped(r, lines, i, trees) ==
    IF r.kind = "tree" THEN readTreesLoop(lines, i + 1, Append(trees, r.w))
    ELSE readTreesLoop(lines, i + 1, trees)

\* The try/catch around one readNewick, whose outcome is r.
readTreesCatch(r, lines, i, trees) ==
    IF r.kind = "tree" THEN readTreesLoop(lines, i + 1, Append(trees, r.w))
    ELSE IF r.kind = "SkipTreeException" THEN readTreesLoop(lines, i + 1, trees)
    ELSE [trees |-> <<>>, thrown |-> Some(r.kind)]

\* The loop of readTreesFromNewick from line i on.
readTreesLoop(lines, i, trees) ==
    IF i > Len(lines) THEN [trees |-> trees, thrown |-> None]
    ELSE IF Trim(lines[i]) = <<>> THEN readTreesLoop(lines, i + 1, trees)
    ELSE readTreesCatch(readNewick(Trim(lines[i])), lines, i, trees)

readTreesFromNewick(newick) == readTreesLoop(SplitTrees(newick, <<>>), 1, <<>>)

\* ------------------------------------------------------------ Newick texts
\* A written tree T: parent vector (nodes in the order written), and for each
\* node its label (with the quote it is written in, "" for none), its branch
\* length (with or without a written ".0"), and what else follows the label.
RECURSIVE Doubled(_, _)
\* s with every quote q written twice.
Doubled(s, q) ==
    IF s = <<>> THEN <<>>
    ELSE (IF s[1] = q THEN <<q, q>> ELSE <<s[1]>>) \o Doubled(Tail(s), q)

WriteLabel(label, q) ==
    IF label = None THEN <<>>
    ELSE IF q = "" THEN label[1]
    ELSE <<q>> \o Doubled(label[1], q) \o <<q>>

RECURSIVE WriteDigits(_)
WriteDigits(n) ==
    IF n < 10 THEN <<ToString(n)>>
    ELSE Append(WriteDigits(n \div 10), ToString(n % 10))

\* A length of v / Unit, v a multiple of Unit / 2.
WriteLength(length, point) ==
    IF length = None THEN <<>>
    ELSE <<":">> \o WriteDigits(Val(length) \div Unit)
                 \o (IF Val(length) % Unit # 0 THEN <<".", "5">>
                     ELSE IF point THEN <<".", "0">> ELSE <<>>)

Extras ==
    [none |-> <<>>,
     hybrid |-> <<"#", "1">>,
     attr |-> <<"[", "&", "k", "=", "v", "]">>,
     attrs |-> <<"[", "&", "k", "=", "{", "v", ",", "w", "}", ",", "j", "=",
                 "x", "]">>]

RECURSIVE WriteNode(_, _)
RECURSIVE WriteKids(_, _, _)
WriteNode(T, i) ==
    LET kids == SelectSeq([k \in 1..Len(T.parent) |-> k],
                          LAMBDA k : T.parent[k] = i)
    IN (IF kids = <<>> THEN <<>> ELSE <<"(">> \o WriteKids(T, kids, 1) \o <<")">>)
       \o WriteLabel(T.label[i], T.quote[i])
       \o Extras[T.extra[i]]
       \o WriteLength(T.length[i], T.point[i])
WriteKids(T, kids, j) ==
    IF j > Len(kids) THEN <<>>
    ELSE (IF j > 1 THEN <<",">> ELSE <<>>)
         \o WriteNode(T, kids[j]) \o WriteKids(T, kids, j + 1)

\* The tree of shape p with bare one-letter labels and length 1 everywhere
\* but at the root.
PlainWritten(p) ==
    [parent |-> p,
     label |-> [i \in 1..Len(p) |-> Some(<<SubSeq(<<"A", "B", "C", "D", "E", "F">>, i, i)[1]>>)],
     quote |-> [i \in 1..Len(p) |-> ""],
     length |-> [i \in 1..Len(p) |-> IF i = 1 THEN None ELSE Num(Unit)],
     point |-> [i \in 1..Len(p) |-> FALSE],
     extra |-> [i \in 1..Len(p) |-> "none"]]

WrittenLabels ==
    {[label |-> None, quote |-> ""], [label |-> Some(<<"A">>), quote |-> ""]}
    \cup {[label |-> Some(l), quote |-> q] :
            l \in {<<"A">>, <<"c", "'", "d">>, <<"c", "'", "d", "'", "e">>},
            q \in {"'", "\""}}

WrittenLengths ==
    {[length |-> None, point |-> FALSE]}
    \cup {[length |-> Num(v), point |-> FALSE] :
            v \in {0, Unit \div 2, Unit, Unit + Unit \div 2}}
    \cup {[length |-> Num(v), point |-> TRUE] : v \in {0, Unit}}

\* The plain trees, and those in which one node's label, or one node's
\* length, or what follows the last node's label is another.
WrittenTrees(max) ==
    UNION {{[PlainWritten(p) EXCEPT !.label[k] = l.label, !.quote[k] = l.quote] :
              k \in 1..Len(p), l \in WrittenLabels}
           \cup {[PlainWritten(p) EXCEPT !.length[j] = b.length,
                                         !.point[j] = b.point] :
                   j \in 1..Len(p), b \in WrittenLengths}
           \cup {[PlainWritten(p) EXCEPT !.extra[Len(p)] = x] : x \in DOMAIN Extras} :
           p \in UNION {Shapes(n) : n \in 1..max}}

\* The pieces of a batch: trees, a tree cut short, and two roots.
Chunks ==
    {WriteNode(PlainWritten(p), 1) : p \in Shapes(1) \cup Shapes(2)}
    \cup {<<"(", "A">>, <<"A", ",", "B">>}

RECURSIVE ChunkLists(_)
ChunkLists(n) ==
    IF n = 0 THEN {<<>>}
    ELSE ChunkLists(n - 1)
         \cup {Append(cs, c) : cs \in ChunkLists(n - 1), c \in Chunks}

RECURSIVE JoinChunks(_, _, _)
\* The pieces, each followed by sep but the last, which end follows.
JoinChunks(cs, sep, end) ==
    IF Len(cs) = 1 THEN cs[1] \o end
    ELSE cs[1] \o sep \o JoinChunks(Tail(cs), sep, end)

Inputs ==
    {[kind |-> "tree", text |-> WriteNode(T, 1) \o <<";">>, written |-> T, chunks |-> <<>>] :
        T \in WrittenTrees(MaxReadNodes)}
    \cup {[kind |-> "batch", text |-> JoinChunks(cs, sep, end),
           written |-> NoWritten, chunks |-> cs] :
            cs \in ChunkLists(MaxChunks) \ {<<>>},
            sep \in {<<";", "\n">>, <<";", " ", "\n", "\n">>},
            end \in {<<";">>, <<";", "\n">>}}
    \cup {[kind |-> "text", text |-> t, written |-> NoWritten, chunks |-> <<>>] :
            t \in {<<"A", "[", "&", "k", "=", "#", "v", "]", ";">>,
                   <<"(", "\"", "A", "\"", "B", ",", "C", ")", ";">>,
                   <<"(", "{", "x", "}", ",", "B", ")", ";">>}}

InitRead ==
    /\ input \in Inputs
    /\ nodes = <<>>
    /\ tree = EmptyTree(0)
    /\ pre = NoTree
    /\ last = NoCall
    /\ ops = 0

\* readNewick(input.text); the Tree it returns becomes the Tree at hand.
ReadNewick ==
    LET r == readNewick(input.text)
    IN Step(IF r.kind = "tree" THEN r.w ELSE Now,
            Call("readNewick", <<>>, <<>>, r.kind # "tree"))

\* readTreesFromNewick(input.text): the Trees returned, or the exception.
ReadTreesFromNewick ==
    LET r == readTreesFromNewick(input.text)
    IN Step(Now, Call("readTreesFromNewick", <<>>,
                      IF r.thrown = None THEN r.trees ELSE r.thrown,
                      r.thrown # None))

NextRead ==
    \/ ReadNewick
    \/ ReadTreesFromNewick

SpecRead == InitRead /\ [][NextRead]_vars

\* readNewick of the text of one tree, and reroot of the Tree it returned.
InitReadTree == InitRead /\ input.kind = "tree"

SpecReadReroot == InitReadTree /\ [][ReadNewick \/ Reroot]_vars

\* ---------------------------------------------------------------- claims
RerootReturned == last.op = "reroot" /\ ~last.thrown
RerootNonRoot == RerootReturned /\ pre.nodes[last.arg[1]].parent # 0

\* C1: for any tree and any non-root edgeBaseNode, getTotalBranchLength gives
\* the same sum immediately before and immediately after reroot.
C1_RerootKeepsTotalLength ==
    RerootNonRoot => getTotalBranchLength(Now) = getTotalBranchLength(pre)

\* C2: for any tree and any non-root edgeBaseNode, the set of tip labels
\* given by getTipLabels is the same before and after reroot.
C2_RerootKeepsTipLabels ==
    RerootNonRoot => Range(getTipLabels(Now)) = Range(getTipLabels(pre))

HeightsOf(W) ==
    LET order == PreOrderFrom(W.nodes, W.tree.root)
    IN [i \in 1..Len(order) |-> W.nodes[order[i]].height]

AgesJustComputed == last.op \in {"none", "computeNodeAges"}
EveryEdgeHasLength == \A n \in TreeNodes : n # tree.root => IsNum(nodes[n].branchLength)

\* C3 as stated: for any parsed tree, with or without all branch lengths,
\* the minimum node height after computeNodeAges is exactly 0.
C3_MinHeightZeroAlways == AgesJustComputed => MathMin(HeightsOf(Now)) = Num(0)

\* C3 amended: for a parsed tree in which every non-root node has a (finite)
\* branch length, the minimum node height after computeNodeAges is exactly 0.
C3_MinHeightZero ==
    (AgesJustComputed /\ EveryEdgeHasLength) => MathMin(HeightsOf(Now)) = Num(0)

\* computeNodeAges has just been called on a tree with all lengths defined
\* whose heights an earlier call had disturbed, and it changed them.
C3_Witness ==
    /\ last.op = "computeNodeAges"
    /\ EveryEdgeHasLength
    /\ Cardinality(TreeNodes) >= 3
    /\ HeightsOf(pre) # HeightsOf(Now)

\* The Tree with every view discarded: what a read computes from scratch.
Fresh == World(nodes, clearCaches(tree))

\* C4: in every reachable state each derived view read from the Tree
\* (nodeList, leafList, getNode, getNodeByLabel, getRecombEdgeMap) equals the
\* value computed afresh from the current graph and root.
C4_ViewsAlwaysFresh ==
    /\ nodeList(Now) = nodeList(Fresh)
    /\ leafList(Now) = leafList(Fresh)
    /\ nodeIDMapFill(Now).tree.nodeIDMap = nodeIDMapFill(Fresh).tree.nodeIDMap
    /\ labelNodeMapFill(Now).tree.labelNodeMap = labelNodeMapFill(Fresh).tree.labelNodeMap
    /\ LET a == getRecombEdgeMap(Now)
           b == getRecombEdgeMap(Fresh)
       IN a.thrown = b.thrown /\ a.w.tree.recombEdgeMap = b.w.tree.recombEdgeMap

\* C5: reroot at a node without a parent raises an error and leaves the Tree
\* as it was: same root, same parent, children and branch length everywhere.
C5_RerootAtRootLeavesTree ==
    (last.op = "reroot" /\ pre.nodes[last.arg[1]].parent = 0) =>
        /\ last.thrown
        /\ tree.root = pre.tree.root
        /\ \A n \in 1..Len(pre.nodes) :
              /\ nodes[n].parent = pre.nodes[n].parent
              /\ nodes[n].children = pre.nodes[n].children
              /\ nodes[n].branchLength = pre.nodes[n].branchLength

RECURSIVE FirstFork(_, _)
\* Walking down from n, the first node that does not have exactly one child.
FirstFork(ns, n) ==
    IF Len(ns[n].children) = 1 THEN FirstFork(ns, ns[n].children[1]) ELSE n

MrcaOfLeavesCalled == last.op = "getMRCA" /\ Len(last.arg) >= 2

\* C6 as stated: for any tree with at least two leaves,
\* getMRCA(tree.leafList) returns the tree's root node.
C6_MrcaOfLeavesIsRootAlways == MrcaOfLeavesCalled => last.ret = tree.root

\* C6 amended: for any tree with at least two leaves, getMRCA(tree.leafList)
\* returns the first node at or below the root that has two or more children;
\* that is the root whenever the root has at least two children.
C6_MrcaOfLeavesIsFirstFork ==
    MrcaOfLeavesCalled =>
        /\ last.ret = FirstFork(nodes, tree.root)
        /\ Len(nodes[tree.root].children) >= 2 => last.ret = tree.root

\* getMRCA(leafList) answered the root on a tree with leaves at different
\* depths under a root with several children.
C6_Witness ==
    /\ MrcaOfLeavesCalled
    /\ Len(nodes[tree.root].children) >= 2
    /\ last.ret = tree.root
    /\ \E a, b \in Range(last.arg) :
          nodes[a].parent = tree.root /\ nodes[b].parent # tree.root

PositionIn(s, x) == CHOOSE i \in 1..Len(s) : s[i] = x

\* The children of n are in ascending order of tip count, equal counts in
\* the order they had in the world W.
LadderOrdered(W, n) ==
    LET kids == nodes[n].children
    IN \A i, j \in 1..Len(kids) :
          i < j =>
             /\ TipCount(nodes, kids[i]) <= TipCount(nodes, kids[j])
             /\ TipCount(nodes, kids[i]) = TipCount(nodes, kids[j]) =>
                   PositionIn(W.nodes[n].children, kids[i])
                       < PositionIn(W.nodes[n].children, kids[j])

\* C7: after one ladderise every node's children are in ascending order of
\* the number of tips below each child, equal counts in their previous
\* relative order; a second ladderise in a row changes no children order.
C7_LadderiseSortsAndIsIdempotent ==
    last.op = "ladderise" =>
        /\ \A n \in TreeNodes : LadderOrdered(pre, n)
        /\ last.prev = "ladderise" =>
              \A n \in TreeNodes : nodes[n].children = pre.nodes[n].children

\* The second of two ladderise calls in a row, on a tree where the first one
\* moved a child ahead of an earlier-parsed sibling and where some node has
\* two children with the same tip count.
C7_Witness ==
    /\ last.op = "ladderise" /\ last.prev = "ladderise" /\ ops = 2
    /\ \E n \in TreeNodes : \E i, j \in 1..Len(nodes[n].children) :
          i < j /\ nodes[nodes[n].children[i]].id > nodes[nodes[n].children[j]].id
    /\ \E n \in TreeNodes : \E i, j \in 1..Len(nodes[n].children) :
          i < j /\ TipCount(nodes, nodes[n].children[i])
                     = TipCount(nodes, nodes[n].children[j])

\* The nodes of the current tree that carry hybrid id h, in preorder: the
\* internal ones, and the leaves.
CarriersOf(h, leaves) ==
    LET Carries(n) == /\ isHybrid(nodes, n)
                      /\ nodes[n].hybridID = Some(h)
                      /\ isLeaf(nodes, n) = leaves
    IN SelectSeq(PreOrderFrom(nodes, tree.root), Carries)

HybridIDsPresent ==
    {nodes[n].hybridID[1] : n \in {m \in TreeNodes : isHybrid(nodes, m)}}

\* C10: a returned recomb-edge map has one entry per hybridID present in the
\* tree; an ID on one internal node and on leaves maps to that node followed
\* by the leaves in preorder, an ID on leaves only maps to those leaves; in an
\* entry with an internal carrier the first element is a non-leaf and the
\* others are leaves.
C10_RecombEdgeMapComplete ==
    (last.op = "getRecombEdgeMap" /\ ~last.thrown) =>
        /\ DOMAIN last.ret = HybridIDsPresent
        /\ \A h \in DOMAIN last.ret :
              /\ (Len(CarriersOf(h, FALSE)) = 1 /\ CarriersOf(h, TRUE) # <<>>) =>
                    last.ret[h] = CarriersOf(h, FALSE) \o CarriersOf(h, TRUE)
              /\ CarriersOf(h, FALSE) = <<>> => last.ret[h] = CarriersOf(h, TRUE)
              /\ CarriersOf(h, FALSE) # <<>> =>
                    /\ ~isLeaf(nodes, last.ret[h][1])
                    /\ \A i \in 2..Len(last.ret[h]) : isLeaf(nodes, last.ret[h][i])

\* The (label, branch length, number of children) of the nodes of the Tree at
\* hand, in preorder.
ParsedTriples ==
    LET order == PreOrderFrom(nodes, tree.root)
    IN [i \in 1..Len(order) |->
           <<nodes[order[i]].label, nodes[order[i]].branchLength,
             Len(nodes[order[i]].children)>>]

\* The same of a written tree, a zero root length counted as none.
WrittenTriples(T) ==
    [i \in 1..Len(T.parent) |->
        <<T.label[i],
          IF i = 1 /\ T.length[i] = Num(0) THEN None ELSE T.length[i],
          Cardinality({k \in 1..Len(T.parent) : T.parent[k] = i})>>]

ReadOneTree == last.op = "readNewick" /\ input.kind = "tree"

ReadBatch == last.op = "readTreesFromNewick" /\ input.kind = "batch"

\* C9: readTreesFromNewick takes the non-empty chunks in order; a chunk whose
\* read raises the skip signal adds nothing, a chunk raising another error
\* makes the call raise that error, otherwise the result is one Tree per
\* non-skipped chunk in input order.
C9_BatchReadsChunksInOrder ==
    ReadBatch =>
        LET outs == [i \in 1..Len(input.chunks) |-> readNewick(input.chunks[i])]
            bad == {i \in 1..Len(input.chunks) :
                        outs[i].kind \notin {"tree", "SkipTreeException"}}
            kept == SelectSeq(outs, LAMBDA r : r.kind = "tree")
        IN IF bad # {}
           THEN last.thrown /\ last.ret = Some(outs[MinOfSet(bad)].kind)
           ELSE ~last.thrown /\ last.ret = [i \in 1..Len(kept) |-> kept[i].w]

\* A batch of several chunks, blank lines between them, came back as that
\* many Trees, not all alike.
C9_Witness ==
    /\ ReadBatch /\ ~last.thrown
    /\ Len(input.chunks) >= 3
    /\ Len(last.ret) = Len(input.chunks)
    /\ last.ret[1] # last.ret[2]
    /\ \E i \in 1..(Len(input.text) - 1) :
          input.text[i] = "\n" /\ input.text[i + 1] = "\n"

\* C11: the label lookup indexes every leaf and only leaves: a leaf is found
\* under its label, an unlabelled leaf under String(id), and a key that is
\* only an internal node's label gives null.
C11_LabelLookupIndexesLeaves ==
    last.op = "getNodeByLabel" =>
        /\ \A n \in Range(LeavesFrom(nodes, tree.root)) :
              /\ nodes[n].label = Some(last.arg[1]) => last.ret = n
              /\ (nodes[n].label = None /\ IdString(nodes[n].id) = last.arg[1]) =>
                    last.ret = n
        /\ (/\ \E n \in TreeNodes : nodes[n].label = Some(last.arg[1])
            /\ \A n \in Range(LeavesFrom(nodes, tree.root)) :
                  TipLabelOf(nodes, n) # last.arg[1]) => last.ret = 0

\* Each node's id is its position, counted from 0, in the preorder from the root.
IdsInPreorder ==
    LET order == PreOrderFrom(nodes, tree.root)
    IN \A i \in 1..Len(order) : nodes[order[i]].id = i - 1

\* C12: immediately after readNewick and after every successful reroot the
\* ids of the tree's nodes are 0..n-1, each node's id being its position in
\* the preorder traversal from the root.
C12_IdsFollowPreorder ==
    (last.op \in {"readNewick", "reroot"} /\ ~last.thrown) => IdsInPreorder

\* reroot returned on a tree of several nodes that readNewick had just
\* read, and gave some of its nodes another id.
C12_Witness ==
    /\ last.op = "reroot" /\ ~last.thrown /\ last.prev = "readNewick"
    /\ Len(pre.nodes) >= 3
    /\ \E n \in 1..Len(pre.nodes) : nodes[n].id # pre.nodes[n].id

\* C13: when reroot returns on a tree with hybrid nodes, every destination
\* leaf of every entry of the rebuilt recomb-edge map (elements after the
\* first) has the height of the entry's source (the first element).
C13_DestHeightsMatchSource ==
    (RerootReturned /\ tree.recombEdgeMap # None) =>
        \A h \in DOMAIN tree.recombEdgeMap[1] :
            \A i \in 2..Len(tree.recombEdgeMap[1][h]) :
                nodes[tree.recombEdgeMap[1][h][i]].height =
                    nodes[tree.recombEdgeMap[1][h][1]].height

\* In world W every hybridID of the tree is carried by exactly one internal
\* node and by at least one leaf.
HybridGroupsConsistent(W) ==
    LET hyb == HybridsFrom(W.nodes, W.tree.root)
    IN \A i \in 1..Len(hyb) :
          LET Same(leaf) == {j \in 1..Len(hyb) :
                                /\ W.nodes[hyb[j]].hybridID = W.nodes[hyb[i]].hybridID
                                /\ isLeaf(W.nodes, hyb[j]) = leaf}
          IN Cardinality(Same(FALSE)) = 1 /\ Same(TRUE) # {}

\* C14: reroot at a non-root node of a freshly read tree that has hybrid
\* nodes, consistent hybrid groups and a length on every edge returns and
\* leaves every hybridID on exactly one internal node and at least one leaf,
\* so that getRecombEdgeMap on the result raises no error.
C14_RerootKeepsHybridGroups ==
    (/\ last.op = "reroot" /\ last.prev = "none"
     /\ pre.nodes[last.arg[1]].parent # 0
     /\ HybridsFrom(pre.nodes, pre.tree.root) # <<>>
     /\ HybridGroupsConsistent(pre)
     /\ \A n \in 2..Len(pre.nodes) : IsNum(pre.nodes[n].branchLength)) =>
        /\ ~last.thrown
        /\ HybridGroupsConsistent(Now)
        /\ ~RecombCompute(nodes, tree.root).thrown

\* The lexer mode in which token i of toks was emitted: 1 after an OPENA
\* with no CLOSEA since, else 0.
ModeAt(toks, i) ==
    LET sw == {j \in 1..(i - 1) : toks[j].kind \in {"OPENA", "CLOSEA"}}
    IN IF sw # {} /\ toks[MaxOfSet(sw)].kind = "OPENA" THEN 1 ELSE 0

\* Token t is what a longest-matching rule among those applicable in mode
\* produces at the start of s.
LongestRuleGives(t, s, mode) ==
    \E k \in Matching(s, mode) :
        /\ \A j \in Matching(s, mode) : MatchRule(j, s) <= MatchRule(k, s)
        /\ t.kind = tokens[k]
        /\ t.value = IF tokens[k] = "STRING"
                     THEN Unquote(SubSeq(s, 1, MatchRule(k, s)))
                     ELSE SubSeq(s, 1, MatchRule(k, s))

\* C15: every token the lexer emits for the text just read is the one the
\* longest-matching rule applicable in the current mode produces at the
\* token's position.
C15_LongestRuleWins ==
    last.op = "readNewick" =>
        LET toks == doLex(input.text, 1, 0, <<>>).tokenList
        IN \A i \in 1..Len(toks) :
              LongestRuleGives(toks[i], Drop(input.text, toks[i].pos),
                               ModeAt(toks, i))

\* The node the reference definition of the MRCA gives for list in the tree
\* at hand: null (0) for no node, the parent (or the root itself) for one
\* node, else the deepest node that is an ancestor-or-self of every node
\* listed.
ReferenceMRCA(list) ==
    LET parent == [n \in 1..Len(nodes) |-> nodes[n].parent]
        common == {c \in 1..Len(nodes) :
                      \A i \in 1..Len(list) : c \in AncSelf(parent, list[i])}
    IN IF Len(list) = 0 THEN 0
       ELSE IF Len(list) = 1
       THEN (IF parent[list[1]] # 0 THEN parent[list[1]] ELSE list[1])
       ELSE IF common = {} THEN 0
       ELSE CHOOSE c \in common : common \subseteq AncSelf(parent, c)

\* C16: getMRCA agrees with the reference definition on every list of nodes
\* of one tree: null for the empty list, the parent (or the root itself) for
\* one node, and for two or more nodes, duplicates and ancestor/descendant
\* pairs included, the deepest common ancestor-or-self.
C16_MrcaAgreesWithReference ==
    last.op = "getMRCA" => last.ret = ReferenceMRCA(last.arg)

\* getMRCA answered a node other than the root for a list that names one
\* node twice and also an ancestor of it.
C16_Witness ==
    /\ last.op = "getMRCA" /\ Len(last.arg) = 3
    /\ last.arg[1] = last.arg[2]
    /\ last.arg[3] = nodes[last.arg[1]].parent
    /\ last.ret = last.arg[3] /\ last.ret # tree.root

\* C17: while some hybridID of the tree is on an internal node and on no
\* leaf, every call of getRecombEdgeMap raises the error, however many
\* earlier calls failed.
C17_RecombErrorEveryCall ==
    (/\ last.op = "getRecombEdgeMap"
     /\ \E h \in HybridIDsPresent :
           CarriersOf(h, FALSE) # <<>> /\ CarriersOf(h, TRUE) = <<>>) =>
        last.thrown

\* In world W every non-root node n of the tree has
\* n.height = n.parent.height - n.branchLength.
HeightsFollowLengths(W) ==
    \A n \in Range(PreOrderFrom(W.nodes, W.tree.root)) :
        n # W.tree.root =>
            /\ IsNum(W.nodes[n].height) /\ IsNum(W.nodes[n].branchLength)
            /\ IsNum(W.nodes[W.nodes[n].parent].height)
            /\ Val(W.nodes[n].height) =
                  Val(W.nodes[W.nodes[n].parent].height) - Val(W.nodes[n].branchLength)

\* C18: getSubtree(node), getTipLabels(node) and ladderise change no height:
\* called on a tree whose heights follow its branch lengths, each leaves
\* every node's height field as it was, and the heights still follow the
\* lengths.
C18_QueriesKeepHeights ==
    (/\ last.op \in {"getSubtree", "getTipLabelsOf", "ladderise"}
     /\ HeightsFollowLengths(pre)) =>
        /\ \A n \in 1..Len(pre.nodes) : nodes[n].height = pre.nodes[n].height
        /\ HeightsFollowLengths(Now)

====
